---- MODULE Spec2Model ----
(***************************************************************************)
(* Model of the shared-cache emergency dispatchers of the repository:      *)
(*   aioHttp3.py  (the variant that takes from the live count under the    *)
(*                 lock)                                  -> Spec, SpecStatic *)
(*   aioHttp.py   (the variant that dispatches the snapshot count and      *)
(*                 decrements afterwards)                 -> SpecV1Static  *)
(* Every block of code between two suspension points that can let another  *)
(* task run (an await of the network, the acquisition of cache_lock) is    *)
(* one action.                                                             *)
(***************************************************************************)
EXTENDS Integers, Sequences, FiniteSets, TLC

\* ------------------------------------------------------------------ bounds
\* largest Quantity of a request entry under Spec
MaxQty == 2
\* largest initial count of a city under the static specifications
StaticMaxCount == 3
\* largest Quantity of a request entry under the static specifications
StaticMaxQty == 4
\* largest targetDispatches of a run of main
MaxTarget == 2

\* the call-processor tasks of one gather: two tasks, which is what it takes
\* for one task's snapshot, take or order to fall between two steps of another
Procs == {1, 2}

\* Python's None
None == "None"

\* the keys of availability_cache that the model follows
Services == {"Medical", "Fire"}

\* ------------------------------------------------- dicts, in insertion order
\* A dict is a sequence of items [city, count] with distinct cities.
EmptyDict == << >>

HasKey(m, k) == \E i \in 1..Len(m) : m[i].city = k

\* m.get(k, d)
DictGet(m, k, d) ==
  IF HasKey(m, k) THEN m[CHOOSE i \in 1..Len(m) : m[i].city = k].count ELSE d

\* m[k] = v : an existing key keeps its place, a new key goes last
DictPut(m, k, v) ==
  IF HasKey(m, k)
  THEN [i \in 1..Len(m) |-> IF m[i].city = k THEN [city |-> k, count |-> v] ELSE m[i]]
  ELSE Append(m, [city |-> k, count |-> v])

Min(a, b) == IF a <= b THEN a ELSE b

Max(a, b) == IF a >= b THEN a ELSE b

RECURSIVE SumSeq(_)
SumSeq(s) == IF s = << >> THEN 0 ELSE Head(s) + SumSeq(Tail(s))

\* ---------------------------------------------------------- Location Index
\* what get_location_details returns: city -> coordinates
location_details ==
  [c \in {"T", "U", "A", "B"} |->
     CASE c = "T" -> [latitude |-> 1, longitude |-> 1]
       [] c = "U" -> [latitude |-> 3, longitude |-> 1]
       [] c = "A" -> [latitude |-> 2, longitude |-> 1]
       [] c = "B" -> [latitude |-> 4, longitude |-> 1]]

Abs(x) == IF x < 0 THEN -x ELSE x

\* math.hypot on coordinates whose distance is a whole number
Hypot(x, y) == CHOOSE r \in 0..(Abs(x) + Abs(y)) : r * r = x * x + y * y

euclidean_distance(coord1, coord2) ==
  Hypot(coord1.latitude - coord2.latitude, coord1.longitude - coord2.longitude)

\* ------------------------------------------------------ availability source
\* the cities the source lists, in the order of its response; X is not in
\* the Location Index
SourceOrder == [s \in Services |-> IF s = "Medical" THEN <<"B", "A">> ELSE <<"X", "A">>]

SourceCities == {"A", "B", "X"}

\* the units each (service, city) truly has at the start of a run
TrueCount ==
  [s \in Services |->
     [c \in SourceCities |->
        IF s = "Medical" THEN (IF c = "A" THEN 2 ELSE IF c = "B" THEN 1 ELSE 0)
        ELSE (IF c = "A" THEN 1 ELSE IF c = "X" THEN 1 ELSE 0)]]

RECURSIVE SearchItems(_, _, _)
\* the body of GET /<service>/search: one item per listed city; a source
\* that lists only the cities with units omits the others
SearchItems(counts, order, omitZero) ==
  IF order = << >> THEN << >>
  ELSE LET c == Head(order)
           rest == SearchItems(counts, Tail(order), omitZero)
       IN IF omitZero /\ counts[c] = 0 THEN rest
          ELSE <<[city |-> c, available |-> counts[c]]>> \o rest

\* what call_api returns: None on any failure, else the parsed body
ApiNone == [status |-> "None", body |-> << >>]

ApiJson(b) == [status |-> "json", body |-> b]

\* Python's "not data" for a call_api result
Falsy(data) == data.status = "None" \/ data.body = << >>

RECURSIVE BuildAvailable(_, _)
\* the loop of get_available: available[city] = count for each item
BuildAvailable(available, items) ==
  IF items = << >> THEN available
  ELSE BuildAvailable(DictPut(available, Head(items).city, Head(items).available),
                      Tail(items))

\* get_available: raises RuntimeError when the response is falsy
get_available(data) ==
  IF Falsy(data) THEN [raised |-> TRUE, value |-> EmptyDict]
  ELSE [raised |-> FALSE, value |-> BuildAvailable(EmptyDict, data.body)]

\* ------------------------------------------------------------------- state
VARIABLES
  availability_cache,  \* service -> dict city -> count
  source,              \* the availability source: service -> city -> units
  refresher,           \* update_availability_cache: [pc, fetched]
  task,                \* the call processors: Procs -> record
  setCount,            \* history: count set for a pair by the last replace
  takenSince,          \* history: units taken from a pair since that replace
  program,             \* the module of src/ that runs
  cache_lock,          \* the holders of cache_lock: empty when it is free
  main                 \* main(): [pc, index, polls, pending, total_calls_processed, ...]

vars == <<availability_cache, source, refresher, task, setCount, takenSince,
          program, cache_lock, main>>

Programs == {"aioHttp3", "aioHttp", "vector_simulation"}

Pairs == Services \X SourceCities

\* availability_cache.get(service_type)
CacheGet(cache, s) == IF s \in DOMAIN cache THEN cache[s] ELSE None

\* availability_cache.get(service_type, {}).get(city, 0)
LiveCount(cache, s, c) ==
  DictGet(IF s \in DOMAIN cache THEN cache[s] ELSE EmptyDict, c, 0)

\* ------------------------------------------------------------------- calls
Request(t, q) == [Type |-> t, Quantity |-> q]

Call(city, reqs) == [city |-> city, requests |-> reqs]

\* the incident records the incident source hands out
Calls(maxq) ==
  {Call("T", <<Request("Medical", q)>>) : q \in 1..maxq}
  \cup {Call("U", <<Request("Medical", 1)>>),
        Call("T", <<Request("Fire", 1), Request("Medical", 1)>>)}

NoCall == Call(None, << >>)

IdleTask ==
  [pc |-> "idle", call |-> NoCall, reqIdx |-> 0, candidates |-> << >>,
   candIdx |-> 0, remaining |-> 0, dispatch_count |-> 0, all_success |-> TRUE,
   result |-> FALSE, orders |-> << >>, liveAfter |-> << >>,
   sent |-> FALSE, applied |-> FALSE, subtracted |-> 0,
   available |-> [s \in Services |-> EmptyDict]]

\* main() inside its loop with the Location Index loaded, waiting for the
\* processors of the calls it handed out
MainProcessing ==
  [pc |-> "gather", index |-> "loaded", polls |-> 0, pending |-> << >>,
   base |-> 0, supplied |-> 0, total_calls_processed |-> 0,
   targetDispatches |-> Cardinality(Procs) + 1, inline |-> FALSE,
   stop_requested |-> FALSE, handed |-> << >>]

\* outcome, same and falsy are history of the cycle that just ended: how it
\* ended, the services whose fetched mapping was the one the cache held, and
\* the search whose response was falsy
IdleRefresher ==
  [pc |-> "fetch", got |-> {}, fetched |-> [s \in Services |-> EmptyDict],
   outcome |-> "none", same |-> {}, falsy |-> {}, swapped |-> {}]

Init ==
  /\ availability_cache = [s \in Services |-> EmptyDict]
  /\ source = TrueCount
  /\ refresher = IdleRefresher
  /\ task = [p \in Procs |-> IdleTask]
  /\ setCount = [pr \in Pairs |-> 0]
  /\ takenSince = [pr \in Pairs |-> 0]
  /\ program = "aioHttp3"
  /\ cache_lock = {}
  /\ main = MainProcessing

\* ------------------------------------------------ update_availability_cache
\* one get_available of the gather returns: the response is what the source
\* holds at that instant, or the call fails
\* OnFetchError that lets the RuntimeError end the task
OnFetchError_Crash(s, data) ==
  [IdleRefresher EXCEPT !.pc = "crashed", !.outcome = "failed",
                        !.falsy = {<<s, data.status>>}]

\* except Exception: pass, then on to asyncio.sleep(interval)
OnFetchError(s, data) ==
  [IdleRefresher EXCEPT !.pc = "sleep", !.outcome = "failed",
                        !.falsy = {<<s, data.status>>}]

Fetch(s, data) ==
  /\ refresher.pc = "fetch"
  /\ s \notin refresher.got
  /\ LET av == get_available(data)
     IN refresher' =
          IF av.raised
          THEN OnFetchError(s, data)
          ELSE [refresher EXCEPT
                  !.pc = IF refresher.got \cup {s} = Services THEN "replace" ELSE "fetch",
                  !.got = refresher.got \cup {s},
                  !.fetched = [refresher.fetched EXCEPT ![s] = av.value]]
  /\ UNCHANGED <<availability_cache, source, task, setCount, takenSince, program, cache_lock, main>>

\* ReplaceAll that keeps the lower of the old and the fetched count
ReplaceAll_KeepLower(cache, fetched) ==
  [s \in DOMAIN cache |->
     [i \in 1..Len(fetched[s]) |->
        [city |-> fetched[s][i].city,
         count |-> IF HasKey(cache[s], fetched[s][i].city)
                   THEN Min(fetched[s][i].count, DictGet(cache[s], fetched[s][i].city, 0))
                   ELSE fetched[s][i].count]]]

\* ReplaceAll that adds the fetched counts to the counts the cache holds
ReplaceAll_Add(cache, fetched) ==
  [s \in DOMAIN cache |->
     [i \in 1..Len(fetched[s]) |->
        [city |-> fetched[s][i].city,
         count |-> fetched[s][i].count + DictGet(cache[s], fetched[s][i].city, 0)]]]

\* the block under cache_lock: every service mapping is replaced
ReplaceAll(cache, fetched) == [s \in DOMAIN cache |-> fetched[s]]

Replace ==
  /\ refresher.pc = "replace"
  /\ cache_lock = {}
  /\ availability_cache' = ReplaceAll(availability_cache, refresher.fetched)
  /\ refresher' = [IdleRefresher EXCEPT
                     !.pc = "sleep", !.outcome = "replaced",
                     !.same = {s \in Services : refresher.fetched[s] = availability_cache[s]}]
  /\ setCount' = [pr \in Pairs |-> LiveCount(availability_cache', pr[1], pr[2])]
  /\ takenSince' = [pr \in Pairs |-> 0]
  /\ UNCHANGED <<source, task, program, cache_lock, main>>

\* asyncio.sleep(interval) returns
Wake ==
  /\ refresher.pc = "sleep"
  /\ refresher' = IdleRefresher
  /\ UNCHANGED <<availability_cache, source, task, setCount, takenSince, program, cache_lock, main>>

\* the responses the source can give to a search at this instant
Responses(s) ==
  {ApiNone} \cup {ApiJson(SearchItems(source[s], SourceOrder[s], oz)) : oz \in BOOLEAN}

Refresh ==
  \/ \E s \in Services : \E data \in Responses(s) : Fetch(s, data)
  \/ Replace
  \/ Wake

\* ------------------------------------- process_multi_service_emergency_shared
RECURSIVE InsertByDistance(_, _)
\* InsertByDistance that puts x before the candidates at the same distance
InsertByDistance_BeforeEqual(sorted, x) ==
  IF sorted = << >> THEN <<x>>
  ELSE IF Head(sorted).distance < x.distance
       THEN <<Head(sorted)>> \o InsertByDistance(Tail(sorted), x)
       ELSE <<x>> \o sorted

\* a stable insertion: x goes after every candidate that is not farther
InsertByDistance(sorted, x) ==
  IF sorted = << >> THEN <<x>>
  ELSE IF Head(sorted).distance <= x.distance
       THEN <<Head(sorted)>> \o InsertByDistance(Tail(sorted), x)
       ELSE <<x>> \o sorted

\* SortByDistance that leaves the candidates in snapshot order
SortByDistance_Unsorted(sorted, rest) == sorted \o rest

RECURSIVE SortByDistance(_, _)
\* candidates.sort(key=lambda candidate: candidate[1]), a stable sort
SortByDistance(sorted, rest) ==
  IF rest = << >> THEN sorted
  ELSE SortByDistance(InsertByDistance(sorted, Head(rest)), Tail(rest))

\* IsCandidate that lets a city with no unit at snapshot time through
IsCandidate_AnyCount(item) == item.city \in DOMAIN location_details

\* the filter of the candidate comprehension
IsCandidate(item) == item.count > 0 /\ item.city \in DOMAIN location_details

RECURSIVE BuildCandidates(_, _)
\* the candidate comprehension over available.items()
BuildCandidates(items, target_coord) ==
  IF items = << >> THEN << >>
  ELSE LET it == Head(items)
           rest == BuildCandidates(Tail(items), target_coord)
       IN IF IsCandidate(it)
          THEN <<[city |-> it.city,
                  distance |-> euclidean_distance(location_details[it.city], target_coord)]>>
               \o rest
          ELSE rest

\* the dispatch endpoint of a service type (None when it has none)
EndpointOf(service_type) ==
  CASE service_type = "Medical" -> "/medical/dispatch"
    [] service_type = "Fire" -> "/fire/dispatch"
    [] service_type = "Police" -> "/police/dispatch"
    [] service_type = "Rescue" -> "/rescue/dispatch"
    [] service_type = "Utility" -> "/utility/dispatch"
    [] OTHER -> None

\* dispatch() posts only when both cities are in the Location Index
DispatchPosts(source_city, target_city) ==
  source_city \in DOMAIN location_details /\ target_city \in DOMAIN location_details

\* TryTake without the clamp to the live count
TryTake_NoClamp(current_avail, remaining) ==
  IF current_avail > 0 THEN remaining ELSE 0

\* TryTake that takes one unit per candidate
TryTake_OneUnit(current_avail, remaining) ==
  IF current_avail > 0 THEN Min(1, remaining) ELSE 0

\* the amount taken under the lock: min(current_avail, remaining), or 0
TryTake(current_avail, remaining) ==
  IF current_avail > 0 THEN Min(current_avail, remaining) ELSE 0

\* NewCount that writes the count back unchanged
NewCount_Stale(current_avail, dispatch_count) == current_avail

\* the count written back under the lock
NewCount(current_avail, dispatch_count) == current_avail - dispatch_count

\* AfterDispatch that keeps the quantity open when the gateway call failed
AfterDispatch_Rollback(remaining, dispatch_count, result) ==
  IF result = None THEN remaining ELSE remaining - dispatch_count

\* remaining after the gateway call returned result
AfterDispatch(remaining, dispatch_count, result) == remaining - dispatch_count

\* the end of the for-loop body over the requests: next request or return
NextRequest(t) ==
  IF t.reqIdx + 1 > Len(t.call.requests)
  THEN [t EXCEPT !.reqIdx = @ + 1, !.pc = "done", !.result = t.all_success,
                 !.candidates = << >>, !.candIdx = 0, !.dispatch_count = 0,
                 !.liveAfter = << >>, !.sent = FALSE, !.applied = FALSE]
  ELSE [t EXCEPT !.reqIdx = @ + 1, !.pc = "snapshot"]

\* EndRequest that leaves all_success as it is when units are missing
EndRequest_KeepSuccess(t, r) == NextRequest([t EXCEPT !.remaining = r])

\* after the candidate loop: if remaining > 0: all_success = False
EndRequest(t, r) ==
  NextRequest([t EXCEPT !.remaining = r,
                        !.all_success = IF r > 0 THEN FALSE ELSE @])

\* AfterCandidate that tries the same candidate again while units are missing
AfterCandidate_Retry(t, r) ==
  IF t.candIdx >= 1 /\ r > 0
  THEN [t EXCEPT !.remaining = r, !.pc = "take"]
  ELSE IF t.candIdx + 1 <= Len(t.candidates) /\ r > 0
       THEN [t EXCEPT !.candIdx = @ + 1, !.remaining = r, !.pc = "take"]
       ELSE EndRequest([t EXCEPT !.candIdx = @ + 1], r)

\* the head of the candidate loop for the next candidate
AfterCandidate(t, r) ==
  IF t.candIdx + 1 <= Len(t.candidates) /\ r > 0
  THEN [t EXCEPT !.candIdx = @ + 1, !.remaining = r, !.pc = "take"]
  ELSE EndRequest([t EXCEPT !.candIdx = @ + 1], r)

\* ServiceOf that reads a type it does not know as Medical
ServiceOf_Aliased(t) ==
  IF t.call.requests[t.reqIdx].Type \in Services
  THEN t.call.requests[t.reqIdx].Type ELSE "Medical"

\* service_type = req.get("Type")
ServiceOf(t) == t.call.requests[t.reqIdx].Type

\* QuantityIgnored that lets a Quantity of 0 through
QuantityIgnored_Negative(quantity_needed) == quantity_needed < 0

\* if quantity_needed <= 0: continue
QuantityIgnored(quantity_needed) == quantity_needed <= 0

\* TargetMissing that lets an unknown city through
TargetMissing_OnlyNone(target_city) == target_city = None

\* if not target_city or target_city not in location_details
TargetMissing(target_city) ==
  target_city = None \/ target_city \notin DOMAIN location_details

\* the task starts on a call; gather starts its coroutines in list order, so
\* a task starts after the tasks listed before it
Begin(p, c) ==
  /\ task[p].pc = "idle"
  /\ \A q \in Procs : q < p => task[q].pc # "idle"
  /\ task' = [task EXCEPT ![p] =
       IF TargetMissing(c.city) \/ c.requests = << >>
       THEN [@ EXCEPT !.call = c, !.pc = "done", !.result = FALSE]
       ELSE [@ EXCEPT !.call = c, !.pc = "snapshot", !.reqIdx = 1, !.all_success = TRUE]]
  /\ UNCHANGED <<availability_cache, source, refresher, setCount, takenSince, program, cache_lock, main>>

\* the head of the request loop and the body of the snapshot block
SnapshotBody(p) ==
  /\ LET t == task[p]
         req == t.call.requests[t.reqIdx]
         available == CacheGet(availability_cache, ServiceOf(t))
         target_coord == location_details[t.call.city]
         candidates == SortByDistance(<< >>, BuildCandidates(available, target_coord))
         t1 == [t EXCEPT !.candidates = candidates, !.candIdx = 0,
                         !.liveAfter = << >>, !.sent = FALSE, !.applied = FALSE,
                         !.subtracted = 0]
     IN task' = [task EXCEPT ![p] =
          IF QuantityIgnored(req.Quantity) \/ ServiceOf(t) \notin DOMAIN availability_cache
          THEN NextRequest(t)
          ELSE AfterCandidate(t1, req.Quantity)]
  /\ UNCHANGED <<availability_cache, source, refresher, setCount, takenSince, program, main>>

\* the head of the request loop and the snapshot under cache_lock
Snapshot(p) ==
  /\ task[p].pc = "snapshot"
  /\ cache_lock = {}
  /\ SnapshotBody(p)
  /\ UNCHANGED cache_lock

\* the body of the block that takes from the live count
TakeBody(p) ==
  /\ LET t == task[p]
         s == ServiceOf(t)
         city == t.candidates[t.candIdx].city
         current_avail == LiveCount(availability_cache, s, city)
         dispatch_count == TryTake(current_avail, t.remaining)
         cache1 == IF current_avail > 0
                   THEN [availability_cache EXCEPT ![s] =
                           DictPut(@, city, NewCount(current_avail, dispatch_count))]
                   ELSE availability_cache
         delta == current_avail - LiveCount(cache1, s, city)
         t1 == [t EXCEPT !.dispatch_count = dispatch_count,
                         !.liveAfter = Append(@, LiveCount(cache1, s, city)),
                         !.sent = FALSE, !.applied = (delta # 0),
                         !.subtracted = @ + delta]
     IN /\ availability_cache' = cache1
        /\ takenSince' = [takenSince EXCEPT ![<<s, city>>] = @ + dispatch_count]
        /\ task' = [task EXCEPT ![p] =
             IF dispatch_count > 0 THEN [t1 EXCEPT !.pc = "dispatch"]
             ELSE AfterCandidate(t1, t.remaining)]
  /\ UNCHANGED <<source, refresher, setCount, program, main>>

\* the block under cache_lock that takes from the live count
Take(p) ==
  /\ task[p].pc = "take"
  /\ cache_lock = {}
  /\ TakeBody(p)
  /\ UNCHANGED cache_lock

\* the gateway call and the rest of the loop body; ok: the gateway took the
\* order, otherwise call_api returned None
Dispatch(p, ok) ==
  /\ task[p].pc = "dispatch"
  /\ LET t == task[p]
         s == ServiceOf(t)
         city == t.candidates[t.candIdx].city
         result == IF ok THEN "ok" ELSE None
         posts == EndpointOf(s) # None /\ DispatchPosts(city, t.call.city)
         order == [service |-> s, source |-> city, target |-> t.call.city,
                   quantity |-> t.dispatch_count, delivered |-> ok, req |-> t.reqIdx]
         t1 == [t EXCEPT !.orders = IF posts THEN Append(@, order) ELSE @,
                         !.sent = posts]
     IN /\ source' = IF posts /\ ok
                     THEN [source EXCEPT ![s][city] = Max(0, @ - t.dispatch_count)]
                     ELSE source
        /\ task' = [task EXCEPT ![p] =
             IF EndpointOf(s) # None
             THEN AfterCandidate(t1, AfterDispatch(t.remaining, t.dispatch_count, result))
             ELSE AfterCandidate(t1, t.remaining)]
  /\ UNCHANGED <<availability_cache, refresher, setCount, takenSince, program, cache_lock, main>>

Process(p, calls) ==
  \/ \E c \in calls : Begin(p, c)
  \/ Snapshot(p)
  \/ Take(p)
  \/ \E ok \in BOOLEAN : Dispatch(p, ok)

Next ==
  \/ \E p \in Procs : Process(p, Calls(MaxQty))
  \/ Refresh

Spec == Init /\ [][Next]_vars

\* -------------------------------------------------- the static specification
\* The state after a refresh cycle, the refresher asleep for the whole window
\* (no replace while the calls are processed): the Medical mapping holds A,
\* or B and A, with any counts up to StaticMaxCount.
StaticDicts ==
  {<<[city |-> "B", count |-> cB], [city |-> "A", count |-> cA]>> :
     cA \in 0..StaticMaxCount, cB \in 0..StaticMaxCount}
  \cup {<<[city |-> "A", count |-> cA]>> : cA \in 1..StaticMaxCount}

StaticFire == <<[city |-> "X", count |-> 1], [city |-> "A", count |-> 1]>>

StaticCalls ==
  {Call(c, <<Request("Medical", q)>>) : c \in {"T", "U"}, q \in 1..StaticMaxQty}

StaticStart ==
  /\ \E m \in StaticDicts :
       availability_cache = [s \in Services |-> IF s = "Medical" THEN m ELSE StaticFire]
  /\ source = [s \in Services |-> [c \in SourceCities |-> LiveCount(availability_cache, s, c)]]
  /\ refresher = [IdleRefresher EXCEPT !.pc = "sleep"]
  /\ task = [p \in Procs |-> IdleTask]
  /\ setCount = [pr \in Pairs |-> LiveCount(availability_cache, pr[1], pr[2])]
  /\ takenSince = [pr \in Pairs |-> 0]
  /\ cache_lock = {}
  /\ main = MainProcessing

StaticInit == StaticStart /\ program = "aioHttp3"

StaticNext == \E p \in Procs : Process(p, StaticCalls)

SpecStatic == StaticInit /\ [][StaticNext]_vars

\* ------------------------------------------- the specification of odd calls
\* The calls of the static specification and the records a call processor
\* must cope with: a service type that is no key of the cache, a Quantity
\* that is not positive, a city that is not in the Location Index or is
\* missing, an empty request list.
EdgeCalls ==
  {Call("T", <<Request("Medical", q)>>) : q \in 1..MaxQty}
  \cup {Call("T", <<Request("Other", 1)>>),
        Call("T", <<Request("Other", 1), Request("Medical", 1)>>),
        Call("T", <<Request("Medical", 0)>>),
        Call("T", <<Request("Medical", 0), Request("Medical", 1)>>),
        Call("T", <<Request("Medical", -1), Request("Medical", 1)>>),
        Call("T", <<Request("Medical", 1), Request("Fire", 0)>>),
        Call("Z", <<Request("Medical", 1)>>),
        Call(None, <<Request("Medical", 1)>>),
        Call("T", << >>)}

EdgeNext == \E p \in Procs : Process(p, EdgeCalls)

SpecEdge == StaticInit /\ [][EdgeNext]_vars

\* ------------------------- aioHttp.py: process_multi_service_emergency_shared
RECURSIVE V1BuildCandidates(_, _)
\* the candidate loop over available.items(): the count is kept in the tuple
V1BuildCandidates(items, target_coord) ==
  IF items = << >> THEN << >>
  ELSE LET it == Head(items)
           rest == V1BuildCandidates(Tail(items), target_coord)
       IN IF IsCandidate(it)
          THEN <<[city |-> it.city,
                  distance |-> euclidean_distance(location_details[it.city], target_coord),
                  count |-> it.count]>> \o rest
          ELSE rest

\* the if/elif chain that picks the endpoint (None: the else branch)
V1EndpointOf(service_type) ==
  CASE service_type = "Medical" -> "/medical/dispatch"
    [] service_type = "Fire" -> "/fire/dispatch"
    [] service_type = "Police" -> "/police/dispatch"
    [] OTHER -> None

\* dispatch_count = min(avail_count, remaining), avail_count from the snapshot
V1DispatchCount(avail_count, remaining) == Min(avail_count, remaining)

RECURSIVE V1Candidate(_, _, _)
\* the candidate loop from candidate i up to the await of dispatch
V1Candidate(t, r, i) ==
  IF i <= Len(t.candidates) /\ r > 0
  THEN IF V1EndpointOf(ServiceOf(t)) = None
       THEN V1Candidate(t, r, i + 1)
       ELSE [t EXCEPT !.candIdx = i, !.remaining = r, !.pc = "dispatch",
                      !.dispatch_count = V1DispatchCount(t.candidates[i].count, r),
                      !.sent = FALSE, !.applied = FALSE]
  ELSE EndRequest([t EXCEPT !.candIdx = i], r)

\* the head of the request loop and the snapshot under cache_lock
V1Snapshot(p) ==
  /\ task[p].pc = "snapshot"
  /\ LET t == task[p]
         req == t.call.requests[t.reqIdx]
         available == CacheGet(availability_cache, ServiceOf(t))
         target_coord == location_details[t.call.city]
         candidates == SortByDistance(<< >>, V1BuildCandidates(available, target_coord))
     IN task' = [task EXCEPT ![p] =
          IF QuantityIgnored(req.Quantity) \/ ServiceOf(t) \notin DOMAIN availability_cache
          THEN NextRequest(t)
          ELSE V1Candidate([t EXCEPT !.candidates = candidates, !.liveAfter = << >>],
                           req.Quantity, 1)]
  /\ UNCHANGED <<availability_cache, source, refresher, setCount, takenSince, program, cache_lock, main>>

\* await dispatch(...): the order goes out before the cache is touched
V1Dispatch(p, ok) ==
  /\ task[p].pc = "dispatch"
  /\ LET t == task[p]
         s == ServiceOf(t)
         city == t.candidates[t.candIdx].city
         posts == DispatchPosts(city, t.call.city)
         order == [service |-> s, source |-> city, target |-> t.call.city,
                   quantity |-> t.dispatch_count, delivered |-> ok, req |-> t.reqIdx]
     IN /\ source' = IF posts /\ ok
                     THEN [source EXCEPT ![s][city] = Max(0, @ - t.dispatch_count)]
                     ELSE source
        /\ task' = [task EXCEPT ![p] =
             [t EXCEPT !.orders = IF posts THEN Append(@, order) ELSE @,
                       !.sent = posts,
                       !.pc = "decrement"]]
  /\ UNCHANGED <<availability_cache, refresher, setCount, takenSince, program, cache_lock, main>>

\* availability_cache[service_type][city] -= dispatch_count under cache_lock,
\* a KeyError when the city is no longer a key; then remaining -= dispatch_count
V1Decrement(p) ==
  /\ task[p].pc = "decrement"
  /\ LET t == task[p]
         s == ServiceOf(t)
         city == t.candidates[t.candIdx].city
     IN IF HasKey(availability_cache[s], city)
        THEN /\ availability_cache' =
                  [availability_cache EXCEPT ![s] =
                     DictPut(@, city, DictGet(@, city, 0) - t.dispatch_count)]
             /\ takenSince' = [takenSince EXCEPT ![<<s, city>>] = @ + t.dispatch_count]
             /\ task' = [task EXCEPT ![p] =
                  V1Candidate([t EXCEPT !.applied = TRUE,
                                        !.liveAfter = Append(@, LiveCount(availability_cache', s, city))],
                              t.remaining - t.dispatch_count, t.candIdx + 1)]
        ELSE /\ task' = [task EXCEPT ![p] = [t EXCEPT !.pc = "raised"]]
             /\ UNCHANGED <<availability_cache, takenSince>>
  /\ UNCHANGED <<source, refresher, setCount, program, cache_lock, main>>

V1Process(p, calls) ==
  \/ \E c \in calls : Begin(p, c)
  \/ V1Snapshot(p)
  \/ \E ok \in BOOLEAN : V1Dispatch(p, ok)
  \/ V1Decrement(p)

V1StaticInit == StaticStart /\ program = "aioHttp"

V1StaticNext == \E p \in Procs : V1Process(p, StaticCalls)

SpecV1Static == V1StaticInit /\ [][V1StaticNext]_vars

\* aioHttp.py from its start, with its refresher: the cache is empty until
\* the first cycle has replaced the mappings
V1Init ==
  /\ availability_cache = [s \in Services |-> EmptyDict]
  /\ source = TrueCount
  /\ refresher = IdleRefresher
  /\ task = [p \in Procs |-> IdleTask]
  /\ setCount = [pr \in Pairs |-> 0]
  /\ takenSince = [pr \in Pairs |-> 0]
  /\ program = "aioHttp"
  /\ cache_lock = {}
  /\ main = MainProcessing

\* update_availability_cache of aioHttp.py: the same cycle as in aioHttp3.py
V1Refresh == Refresh

V1Next ==
  \/ \E p \in Procs : V1Process(p, Calls(MaxQty))
  \/ V1Refresh

SpecV1 == V1Init /\ [][V1Next]_vars

\* ------------------------------------------- vector_simulation.py: process_call
\* get_available: the mapping of the response, empty when the call failed
VecGetAvailable(data) ==
  IF Falsy(data) THEN EmptyDict ELSE BuildAvailable(EmptyDict, data.body)

\* the candidate loop from candidate i up to the call of dispatch
VecCandidate(t, r, i) ==
  IF i <= Len(t.candidates) /\ r > 0
  THEN [t EXCEPT !.candIdx = i, !.remaining = r, !.pc = "dispatch",
                 !.dispatch_count = Min(t.candidates[i].count, r),
                 !.sent = FALSE, !.applied = FALSE]
  ELSE EndRequest([t EXCEPT !.candIdx = i], r)

\* the head of process_call; main runs the calls one after the other, and
\* availability_cache stands for the call's local available_resources
VecBegin(p, c, resp) ==
  /\ task[p].pc = "idle"
  /\ \A q \in Procs : q < p => task[q].pc = "done"
  /\ IF TargetMissing(c.city) \/ c.requests = << >>
     THEN /\ task' = [task EXCEPT ![p] = [@ EXCEPT !.call = c, !.pc = "done", !.result = FALSE]]
          /\ UNCHANGED <<availability_cache, setCount, takenSince>>
     ELSE /\ availability_cache' = [s \in Services |-> VecGetAvailable(resp[s])]
          /\ setCount' = [pr \in Pairs |-> LiveCount(availability_cache', pr[1], pr[2])]
          /\ takenSince' = [pr \in Pairs |-> 0]
          /\ task' = [task EXCEPT ![p] =
               [@ EXCEPT !.call = c, !.pc = "snapshot", !.reqIdx = 1, !.all_success = TRUE]]
  /\ UNCHANGED <<source, refresher, program, cache_lock, main>>

\* the head of the request loop and the candidate list
VecRequest(p) ==
  /\ task[p].pc = "snapshot"
  /\ LET t == task[p]
         req == t.call.requests[t.reqIdx]
         target_coord == location_details[t.call.city]
         candidates == SortByDistance(<< >>,
                         V1BuildCandidates(availability_cache[ServiceOf(t)], target_coord))
     IN task' = [task EXCEPT ![p] =
          IF req.Quantity <= 0 \/ ServiceOf(t) \notin DOMAIN availability_cache
          THEN NextRequest(t)
          ELSE VecCandidate([t EXCEPT !.candidates = candidates, !.liveAfter = << >>],
                            req.Quantity, 1)]
  /\ UNCHANGED <<availability_cache, source, refresher, setCount, takenSince, program, cache_lock, main>>

\* dispatch(...), then available_resources[service][city] -= dispatch_count
\* and remaining -= dispatch_count
VecDispatch(p, ok) ==
  /\ task[p].pc = "dispatch"
  /\ LET t == task[p]
         s == ServiceOf(t)
         city == t.candidates[t.candIdx].city
         posts == DispatchPosts(city, t.call.city)
         order == [service |-> s, source |-> city, target |-> t.call.city,
                   quantity |-> t.dispatch_count, delivered |-> ok, req |-> t.reqIdx]
     IN /\ source' = IF posts /\ ok
                     THEN [source EXCEPT ![s][city] = Max(0, @ - t.dispatch_count)]
                     ELSE source
        /\ availability_cache' =
             [availability_cache EXCEPT ![s] =
                DictPut(@, city, DictGet(@, city, 0) - t.dispatch_count)]
        /\ takenSince' = [takenSince EXCEPT ![<<s, city>>] = @ + t.dispatch_count]
        /\ task' = [task EXCEPT ![p] =
             VecCandidate([t EXCEPT !.orders = IF posts THEN Append(@, order) ELSE @,
                                    !.sent = posts, !.applied = TRUE,
                                    !.liveAfter = Append(@, LiveCount(availability_cache', s, city))],
                          t.remaining - t.dispatch_count, t.candIdx + 1)]
  /\ UNCHANGED <<refresher, setCount, program, cache_lock, main>>

\* the responses of the three searches of one call
VecResponses ==
  {resp \in [Services -> UNION {Responses(s) : s \in Services}] :
     \A s \in Services : resp[s] \in Responses(s)}

VecProcess(p, calls) ==
  \/ \E c \in calls, resp \in VecResponses : VecBegin(p, c, resp)
  \/ VecRequest(p)
  \/ \E ok \in BOOLEAN : VecDispatch(p, ok)

\* ------------------------------------------------ the three call processors
\* each of the programs that check the target city, on the calls of EdgeCalls
ProgramsInit == StaticStart /\ program \in Programs

ProgramsNext ==
  \E p \in Procs :
    \/ program = "aioHttp3" /\ Process(p, EdgeCalls)
    \/ program = "aioHttp" /\ V1Process(p, EdgeCalls)
    \/ program = "vector_simulation" /\ VecProcess(p, EdgeCalls)

SpecPrograms == ProgramsInit /\ [][ProgramsNext]_vars

\* ------------------------------------------- cache_lock, statement by statement
\* aioHttp3.py with the acquire of cache_lock, the statements of the locked
\* blocks and the cancellation of the refresher as steps of their own
Holder(p) == <<"process_multi_service_emergency_shared", p>>

RefresherHolder == <<"update_availability_cache", 0>>

\* the order of the five assignments of the locked block
ServiceOrder == <<"Medical", "Fire">>

\* Released that keeps the lock past the end of the block
Released_Kept(holders) == holders

\* the exit of an `async with cache_lock` block
Released(holders) == {}

\* CancelDelivered that stops the coroutine wherever it is
CancelDelivered_Anywhere(pc) == pc # "cancelled"

\* cache_task.cancel(): the CancelledError is raised in the coroutine at the
\* await it is suspended on, the gather or the sleep
CancelDelivered(pc) == pc \in {"fetch", "replace", "sleep"}

\* a coroutine runs on the event loop until its next await: no other
\* coroutine is inside a locked block when this one is resumed
TasksSuspended(ps) ==
  \A q \in ps : task[q].pc \notin {"snapshot_locked", "take_locked"}

RefresherSuspended == refresher.pc # "swap"

LockBegin(p, c) ==
  /\ refresher.pc # "cancelled"
  /\ TasksSuspended(Procs \ {p}) /\ RefresherSuspended
  /\ Begin(p, c)

\* if quantity_needed <= 0: continue, before the lock is asked for
LockSkip(p) ==
  /\ task[p].pc = "snapshot"
  /\ TasksSuspended(Procs \ {p}) /\ RefresherSuspended
  /\ QuantityIgnored(task[p].call.requests[task[p].reqIdx].Quantity)
  /\ SnapshotBody(p)
  /\ UNCHANGED cache_lock

\* async with cache_lock: of the snapshot block and of the take block
LockAcquire(p) ==
  /\ \/ /\ task[p].pc = "snapshot"
        /\ ~QuantityIgnored(task[p].call.requests[task[p].reqIdx].Quantity)
     \/ task[p].pc = "take"
  /\ TasksSuspended(Procs \ {p}) /\ RefresherSuspended
  /\ cache_lock = {}
  /\ cache_lock' = {Holder(p)}
  /\ task' = [task EXCEPT ![p].pc = IF @ = "snapshot" THEN "snapshot_locked"
                                    ELSE "take_locked"]
  /\ UNCHANGED <<availability_cache, source, refresher, setCount, takenSince, program, main>>

\* the statements of the snapshot block and its exit
LockSnapshot(p) ==
  /\ task[p].pc = "snapshot_locked"
  /\ cache_lock = {Holder(p)}
  /\ SnapshotBody(p)
  /\ cache_lock' = Released(cache_lock)

\* the statements of the take block and its exit
LockTake(p) ==
  /\ task[p].pc = "take_locked"
  /\ cache_lock = {Holder(p)}
  /\ TakeBody(p)
  /\ cache_lock' = Released(cache_lock)

\* the gateway call returns
LockDispatch(p, ok) ==
  /\ TasksSuspended(Procs \ {p}) /\ RefresherSuspended
  /\ Dispatch(p, ok)

\* a search of the gather returns, or the sleep ends
LockFetch ==
  /\ TasksSuspended(Procs)
  /\ \/ \E s \in Services : \E data \in Responses(s) : Fetch(s, data)
     \/ Wake

\* async with cache_lock: of the refresher
LockAcquireRefresher ==
  /\ refresher.pc = "replace"
  /\ TasksSuspended(Procs)
  /\ cache_lock = {}
  /\ cache_lock' = {RefresherHolder}
  /\ refresher' = [refresher EXCEPT !.pc = "swap"]
  /\ UNCHANGED <<availability_cache, source, task, setCount, takenSince, program, main>>

\* availability_cache[service] = fetched, one assignment after the other
LockSwap ==
  /\ refresher.pc = "swap"
  /\ cache_lock = {RefresherHolder}
  /\ refresher.swapped # Services
  /\ LET s == ServiceOrder[Cardinality(refresher.swapped) + 1]
     IN /\ availability_cache' = [availability_cache EXCEPT ![s] = refresher.fetched[s]]
        /\ refresher' = [refresher EXCEPT !.swapped = @ \cup {s}]
  /\ UNCHANGED <<source, task, setCount, takenSince, program, cache_lock, main>>

\* the exit of the refresher's block, on to asyncio.sleep(interval)
LockReleaseRefresher ==
  /\ refresher.pc = "swap"
  /\ cache_lock = {RefresherHolder}
  /\ refresher.swapped = Services
  /\ cache_lock' = Released(cache_lock)
  /\ refresher' = [IdleRefresher EXCEPT !.pc = "sleep", !.outcome = "replaced"]
  /\ setCount' = [pr \in Pairs |-> LiveCount(availability_cache, pr[1], pr[2])]
  /\ takenSince' = [pr \in Pairs |-> 0]
  /\ UNCHANGED <<availability_cache, source, task, program, main>>

\* cache_task.cancel() of main: before any call when the reset failed, or
\* after the last batch of calls has been gathered
Cancel ==
  /\ refresher.pc # "cancelled"
  /\ CancelDelivered(refresher.pc)
  /\ \A p \in Procs : task[p].pc \in {"idle", "done"}
  /\ refresher' = [refresher EXCEPT !.pc = "cancelled"]
  /\ UNCHANGED <<availability_cache, source, task, setCount, takenSince, program, cache_lock, main>>

LockCalls ==
  {Call("T", <<Request("Medical", q)>>) : q \in 1..MaxQty}
  \cup {Call("T", <<Request("Medical", 0), Request("Fire", 1)>>)}

LockNext ==
  \/ \E p \in Procs :
       \/ \E c \in LockCalls : LockBegin(p, c)
       \/ LockSkip(p)
       \/ LockAcquire(p)
       \/ LockSnapshot(p)
       \/ LockTake(p)
       \/ \E ok \in BOOLEAN : LockDispatch(p, ok)
  \/ LockFetch
  \/ LockAcquireRefresher
  \/ LockSwap
  \/ LockReleaseRefresher
  \/ Cancel

SpecLock == Init /\ [][LockNext]_vars

\* the steps of call processor p once its call has started
LockTaskStep(p) ==
  \/ LockSkip(p)
  \/ LockAcquire(p)
  \/ LockSnapshot(p)
  \/ LockTake(p)
  \/ \E ok \in BOOLEAN : LockDispatch(p, ok)

\* the statements of the refresher's locked block
LockRefresherBlock == LockSwap \/ LockReleaseRefresher

\* The event loop resumes every coroutine that is ready, asyncio.Lock wakes
\* its waiters in turn and every network call returns: a step of a call
\* processor that is possible again and again is taken, and the refresher
\* runs through its block once it is inside.
\* two calls that make a request walk both Medical cities and skip an entry
LiveCalls ==
  {Call("T", <<Request("Medical", 2)>>),
   Call("T", <<Request("Medical", 0), Request("Fire", 1)>>)}

LiveNext ==
  \/ \E p \in Procs :
       \/ \E c \in LiveCalls : LockBegin(p, c)
       \/ LockTaskStep(p)
  \/ LockFetch
  \/ LockRefresherBlock
  \/ LockAcquireRefresher
  \/ Cancel

SpecLockFair ==
  /\ Init /\ [][LiveNext]_vars
  /\ \A p \in Procs : SF_vars(LockTaskStep(p))
  /\ WF_vars(LockRefresherBlock)

\* --------------- fast_simulation.py: process_multi_service_emergency
\* get_available_ambulances and its two siblings: raise when the response is falsy
FastGetAvailable(data) ==
  IF Falsy(data) THEN [raised |-> TRUE, value |-> EmptyDict]
  ELSE [raised |-> FALSE, value |-> BuildAvailable(EmptyDict, data.body)]

\* the if/elif chain over the three dispatch functions (None: the else branch)
FastEndpointOf(service_type) ==
  CASE service_type = "Medical" -> "/medical/dispatch"
    [] service_type = "Fire" -> "/fire/dispatch"
    [] service_type = "Police" -> "/police/dispatch"
    [] OTHER -> None

\* if target_city not in location_details: continue, inside the request loop
FastTargetUnknown(target_city) == target_city \notin DOMAIN location_details

\* the candidate loop from candidate i up to the call of a dispatch function
FastCandidate(t, r, i) ==
  IF i <= Len(t.candidates) /\ r > 0
  THEN [t EXCEPT !.candIdx = i, !.remaining = r, !.pc = "dispatch",
                 !.dispatch_count = Min(t.candidates[i].count, r),
                 !.sent = FALSE, !.applied = FALSE]
  ELSE EndRequest([t EXCEPT !.candIdx = i], r)

\* the head of the function in a thread of the pool: the two early returns,
\* then the searches, all answered from what the source holds at this instant;
\* the mappings are local to the call (task[p].available)
FastBegin(p, c, resp) ==
  /\ task[p].pc = "idle"
  /\ task' = [task EXCEPT ![p] =
       IF c.city = None \/ c.requests = << >>
       THEN [@ EXCEPT !.call = c, !.pc = "done", !.result = FALSE]
       ELSE IF \E s \in Services : FastGetAvailable(resp[s]).raised
            THEN [@ EXCEPT !.call = c, !.pc = "raised"]
            ELSE [@ EXCEPT !.call = c, !.pc = "snapshot", !.reqIdx = 1,
                           !.all_success = TRUE,
                           !.available = [s \in Services |-> FastGetAvailable(resp[s]).value]]]
  /\ UNCHANGED <<availability_cache, source, refresher, setCount, takenSince, program, cache_lock, main>>

\* the head of the request loop and the candidate list
FastRequest(p) ==
  /\ task[p].pc = "snapshot"
  /\ LET t == task[p]
         req == t.call.requests[t.reqIdx]
         target_coord == location_details[t.call.city]
         candidates == SortByDistance(<< >>,
                         V1BuildCandidates(t.available[ServiceOf(t)], target_coord))
     IN task' = [task EXCEPT ![p] =
          IF QuantityIgnored(req.Quantity) THEN NextRequest(t)
          ELSE IF FastTargetUnknown(t.call.city) THEN NextRequest(t)
          ELSE IF ServiceOf(t) \notin DOMAIN t.available THEN NextRequest(t)
          ELSE FastCandidate([t EXCEPT !.candidates = candidates, !.liveAfter = << >>],
                             req.Quantity, 1)]
  /\ UNCHANGED <<availability_cache, source, refresher, setCount, takenSince, program, cache_lock, main>>

\* the dispatch function of the type, then available[city] -= dispatch_count
\* and remaining -= dispatch_count
FastDispatch(p, ok) ==
  /\ task[p].pc = "dispatch"
  /\ LET t == task[p]
         s == ServiceOf(t)
         city == t.candidates[t.candIdx].city
         posts == FastEndpointOf(s) # None /\ DispatchPosts(city, t.call.city)
         order == [service |-> s, source |-> city, target |-> t.call.city,
                   quantity |-> t.dispatch_count, delivered |-> ok, req |-> t.reqIdx]
         t1 == [t EXCEPT !.orders = IF posts THEN Append(@, order) ELSE @,
                         !.sent = posts]
     IN /\ source' = IF posts /\ ok
                     THEN [source EXCEPT ![s][city] = Max(0, @ - t.dispatch_count)]
                     ELSE source
        /\ task' = [task EXCEPT ![p] =
             IF FastEndpointOf(s) = None
             THEN FastCandidate(t1, t.remaining, t.candIdx + 1)
             ELSE FastCandidate(
                    [t1 EXCEPT !.applied = TRUE,
                               !.available[s] =
                                  DictPut(@, city, DictGet(@, city, 0) - t.dispatch_count)],
                    t.remaining - t.dispatch_count, t.candIdx + 1)]
  /\ UNCHANGED <<availability_cache, refresher, setCount, takenSince, program, cache_lock, main>>

\* ------------------------------------------------------------------ main()
\* The incident source hands out at most MaxIncidents calls in a run, one
\* processor per call; main.base is the number of calls handed to processors
\* in earlier batches and main.supplied the number the source has handed out.
MaxIncidents == Cardinality(Procs)

MainPrograms == {"aioHttp3", "aioHttp", "vector_simulation", "fast_simulation"}

\* a request entry whose "Quantity" is null: it has no Quantity to compare
NullQuantity(t) == [Type |-> t, Null |-> "Quantity"]

MainCalls ==
  {Call("T", <<Request("Medical", 2)>>),
   Call("Z", <<Request("Medical", 1)>>),
   Call("T", <<Request("Medical", 0), Request("Fire", 1)>>),
   Call("T", <<NullQuantity("Medical")>>)}

\* main before its first statement; inline: the pending call came from
\* request_next_call; stop_requested: POST /control/stop was sent; handed: the
\* records the incident source has handed to main, in order
MainStart ==
  [pc |-> "reset", index |-> "none", polls |-> 0, pending |-> << >>,
   base |-> 0, supplied |-> 0, total_calls_processed |-> 0,
   targetDispatches |-> 1, inline |-> FALSE, stop_requested |-> FALSE,
   handed |-> << >>]

MainInit ==
  /\ availability_cache = [s \in Services |-> EmptyDict]
  /\ source = TrueCount
  /\ refresher = IdleRefresher
  /\ task = [p \in Procs |-> IdleTask]
  /\ setCount = [pr \in Pairs |-> 0]
  /\ takenSince = [pr \in Pairs |-> 0]
  /\ program \in MainPrograms
  /\ cache_lock = {}
  /\ \E n \in 1..MaxTarget : main = [MainStart EXCEPT !.targetDispatches = n]

\* main is over: it returned, or an exception left it
MainOver == main.pc \in {"returned", "raised"}

\* POST /control/reset; a None result ends main
MainReset(ok) ==
  /\ main.pc = "reset"
  /\ main' = [main EXCEPT !.pc = IF ok THEN "load" ELSE "returned"]
  /\ UNCHANGED <<availability_cache, source, refresher, task, setCount, takenSince, program, cache_lock>>

\* what a failed GET /locations does to main: get_location_details raises in
\* aioHttp3.py and aioHttp.py (nothing catches it) and in fast_simulation.py
\* (main catches it and returns); in vector_simulation.py it returns an empty
\* index
OnLoadFailure(prog, m) ==
  CASE prog \in {"aioHttp3", "aioHttp"} -> [m EXCEPT !.pc = "raised", !.index = "failed"]
    [] prog = "fast_simulation" -> [m EXCEPT !.pc = "returned", !.index = "failed"]
    [] OTHER -> [m EXCEPT !.pc = "poll", !.index = "failed"]

\* location_details = get_location_details()
MainLoad(ok) ==
  /\ main.pc = "load"
  /\ main' = IF ok THEN [main EXCEPT !.pc = "poll", !.index = "loaded"]
             ELSE OnLoadFailure(program, main)
  /\ UNCHANGED <<availability_cache, source, refresher, task, setCount, takenSince, program, cache_lock>>

\* the batches get_pending_calls can return: the empty one, or calls the
\* source still has to hand out
Batches ==
  {<< >>} \cup UNION {[1..n -> MainCalls] : n \in 1..(MaxIncidents - main.supplied)}

\* pending_calls = get_pending_calls(), at the head of the loop
MainPoll(batch) ==
  /\ main.pc = "poll"
  /\ main' = IF batch = << >>
             THEN [main EXCEPT !.polls = @ + 1, !.pc = "next"]
             ELSE [main EXCEPT !.polls = @ + 1, !.pc = "gather", !.pending = batch,
                               !.supplied = @ + Len(batch), !.inline = FALSE,
                               !.handed = @ \o batch]
  /\ UNCHANGED <<availability_cache, source, refresher, task, setCount, takenSince, program, cache_lock>>

\* what main does with a call request_next_call returned: aioHttp3.py,
\* aioHttp.py and vector_simulation.py process it, fast_simulation.py goes
\* back to the poll
OnNextCall(prog, m, c) ==
  IF prog = "fast_simulation"
  THEN [m EXCEPT !.pc = "poll", !.supplied = @ + 1, !.handed = Append(@, c)]
  ELSE [m EXCEPT !.pc = "gather", !.pending = <<c>>, !.supplied = @ + 1,
                 !.inline = TRUE, !.handed = Append(@, c)]

\* request_next_call() after an empty poll; got: the source had a call
MainNextCall(got, c) ==
  /\ main.pc = "next"
  /\ got => main.supplied < MaxIncidents
  /\ main' = IF got THEN OnNextCall(program, main, c) ELSE [main EXCEPT !.pc = "stop"]
  /\ UNCHANGED <<availability_cache, source, refresher, task, setCount, takenSince, program, cache_lock>>

\* the processors of the batch main waits for
BatchProcs == {p \in Procs : main.base < p /\ p <= main.base + Len(main.pending)}

\* main has handed processor p its call and p has not started it
Handed(p) == main.pc = "gather" /\ p \in BatchProcs

CallOf(p) == main.pending[p - main.base]

\* Counts that takes every result that is not an exception
Counts_AnyResult(t) == t.pc = "done"

\* what a processor gave back counts when it is True
Counts(t) == t.pc = "done" /\ t.result

\* total_calls_processed after the loop over n True results: one is added per
\* result until targetDispatches is reached, then break
CountAfter(total, n, target) == Min(target, total + n)

\* vector_simulation.py runs the calls of a batch inside the counting loop:
\* the calls before p have brought the count to targetDispatches
ReachedBefore(p) ==
  main.total_calls_processed
    + Cardinality({q \in BatchProcs : q < p /\ Counts(task[q])}) >= main.targetDispatches

\* vector_simulation.py: the loop has come to the call of p
VecHanded(p) == Handed(p) /\ ~ReachedBefore(p)

\* aioHttp.py awaits the processor of a next-call record outside a gather,
\* and vector_simulation.py calls process_call in main's own loop: the
\* exception of the processor leaves main
RaisedInline ==
  /\ (program = "aioHttp" /\ main.inline) \/ program = "vector_simulation"
  /\ \E p \in BatchProcs : task[p].pc = "raised"

\* LoopHead that never leaves the loop for the count
LoopHead_NeverStops(total, target) == "poll"

\* the head of the while loop: on to the next poll, or out of the loop
LoopHead(total, target) == IF total >= target THEN "stop" ELSE "poll"

\* the processors are through: total_calls_processed grows by the calls that
\* returned True, up to targetDispatches
MainCollect ==
  /\ main.pc = "gather"
  /\ \A p \in BatchProcs :
       \/ task[p].pc \in {"done", "raised"}
       \/ program = "vector_simulation" /\ ReachedBefore(p)
       \/ program = "vector_simulation" /\ \E q \in BatchProcs : q < p /\ task[q].pc = "raised"
  /\ LET total == CountAfter(main.total_calls_processed,
                             Cardinality({p \in BatchProcs : Counts(task[p])}),
                             main.targetDispatches)
     IN main' = IF RaisedInline
                THEN [main EXCEPT !.pc = "raised", !.pending = << >>,
                                  !.base = @ + Len(main.pending)]
                ELSE [main EXCEPT
                        !.pc = LoopHead(total, main.targetDispatches),
                        !.pending = << >>, !.base = @ + Len(main.pending),
                        !.total_calls_processed = total]
  /\ UNCHANGED <<availability_cache, source, refresher, task, setCount, takenSince, program, cache_lock>>

\* POST /control/stop after the loop, then cache_task.cancel()
MainStop ==
  /\ main.pc = "stop"
  /\ main' = [main EXCEPT !.pc = "returned", !.stop_requested = TRUE]
  /\ UNCHANGED <<availability_cache, source, refresher, task, setCount, takenSince, program, cache_lock>>

\* process_call with the empty index: target_city not in location_details
VecBeginEmptyIndex(p, c) ==
  /\ task[p].pc = "idle"
  /\ \A q \in Procs : q < p => task[q].pc = "done"
  /\ task' = [task EXCEPT ![p] = [@ EXCEPT !.call = c, !.pc = "done", !.result = FALSE]]
  /\ UNCHANGED <<availability_cache, source, refresher, setCount, takenSince, program, cache_lock, main>>

\* quantity_needed <= 0 is a TypeError when Quantity is null in the entry
QuantityRaises(req) == "Quantity" \notin DOMAIN req

\* processor p is at the head of the request loop, at an entry whose Quantity
\* can be compared
WellFormed(p) ==
  /\ task[p].pc = "snapshot"
  /\ ~QuantityRaises(task[p].call.requests[task[p].reqIdx])

\* the comparison of the request loop raises: the exception ends the processor
RequestRaises(p) ==
  /\ task[p].pc = "snapshot"
  /\ QuantityRaises(task[p].call.requests[task[p].reqIdx])
  /\ task' = [task EXCEPT ![p] = [@ EXCEPT !.pc = "raised"]]
  /\ UNCHANGED <<availability_cache, source, refresher, setCount, takenSince, program, cache_lock, main>>

\* cache_task of aioHttp3.py and of aioHttp.py runs until main is over
MainRefresh == program \in {"aioHttp3", "aioHttp"} /\ ~MainOver /\ Refresh

\* a step of the processor main of aioHttp3.py started on its call
MainShared(p) ==
  \/ Handed(p) /\ Begin(p, CallOf(p))
  \/ WellFormed(p) /\ Snapshot(p)
  \/ RequestRaises(p)
  \/ Take(p)
  \/ \E ok \in BOOLEAN : Dispatch(p, ok)

MainProcess(p) ==
  \/ program = "aioHttp3" /\ MainShared(p)
  \/ /\ program = "aioHttp"
     /\ \/ Handed(p) /\ Begin(p, CallOf(p))
        \/ WellFormed(p) /\ V1Snapshot(p)
        \/ RequestRaises(p)
        \/ \E ok \in BOOLEAN : V1Dispatch(p, ok)
        \/ V1Decrement(p)
  \/ /\ program = "vector_simulation"
     /\ \/ VecHanded(p) /\ main.index = "loaded"
             /\ \E resp \in VecResponses : VecBegin(p, CallOf(p), resp)
        \/ VecHanded(p) /\ main.index = "failed" /\ VecBeginEmptyIndex(p, CallOf(p))
        \/ WellFormed(p) /\ VecRequest(p)
        \/ RequestRaises(p)
        \/ \E ok \in BOOLEAN : VecDispatch(p, ok)
  \/ /\ program = "fast_simulation"
     /\ \/ Handed(p) /\ \E resp \in VecResponses : FastBegin(p, CallOf(p), resp)
        \/ WellFormed(p) /\ FastRequest(p)
        \/ RequestRaises(p)
        \/ \E ok \in BOOLEAN : FastDispatch(p, ok)

MainNext ==
  \/ \E ok \in BOOLEAN : MainReset(ok)
  \/ \E ok \in BOOLEAN : MainLoad(ok)
  \/ \E batch \in Batches : MainPoll(batch)
  \/ \E got \in BOOLEAN, c \in MainCalls : MainNextCall(got, c)
  \/ MainCollect
  \/ MainStop
  \/ MainRefresh
  \/ \E p \in Procs : MainProcess(p)

SpecMain == MainInit /\ [][MainNext]_vars

\* ------------------------------------------- main() of aioHttp3.py, with fairness
\* the records of the incident source: one that can be served and one whose
\* processor raises
StopCalls ==
  {Call("T", <<Request("Medical", 2)>>), Call("T", <<NullQuantity("Medical")>>)}

StopBatches == {batch \in Batches : \A i \in 1..Len(batch) : batch[i] \in StopCalls}

\* a step of main itself: every await of main returns
MainStep ==
  \/ \E ok \in BOOLEAN : MainReset(ok)
  \/ \E ok \in BOOLEAN : MainLoad(ok)
  \/ \E batch \in StopBatches : MainPoll(batch)
  \/ \E got \in BOOLEAN, c \in StopCalls : MainNextCall(got, c)
  \/ MainCollect
  \/ MainStop

StopInit == MainInit /\ program = "aioHttp3"

StopNext ==
  \/ MainStep
  \/ MainRefresh
  \/ \E p \in Procs : MainShared(p)

\* the event loop runs main and every processor that can go on; the network
\* calls return
SpecStop ==
  /\ StopInit /\ [][StopNext]_vars
  /\ WF_vars(MainStep)
  /\ \A p \in Procs : WF_vars(MainShared(p))

\* ------------------------------ one call, with and without its ignored entries
\* the request entries that are left when those with Quantity <= 0 are removed
PositiveRequests(requests_list) ==
  SelectSeq(requests_list, LAMBDA req : ~QuantityIgnored(req.Quantity))

\* the call without its ignored entries
Filtered(c) == Call(c.city, PositiveRequests(c.requests))

\* the cache with the counts it had at the start (the keys and their order
\* never change without a refresh)
StartCache ==
  [s \in Services |->
     [i \in 1..Len(availability_cache[s]) |->
        [city |-> availability_cache[s][i].city,
         count |-> setCount[<<s, availability_cache[s][i].city>>]]]]

\* the first run: processor 1 on a call
PairFirst(c) == Begin(1, c)

\* the first run is over: the cache is put back to the state the first run
\* started from
PairRestore ==
  /\ task[1].pc = "done"
  /\ task[2].pc = "idle"
  /\ availability_cache # StartCache
  /\ availability_cache' = StartCache
  /\ takenSince' = [pr \in Pairs |-> 0]
  /\ UNCHANGED <<source, refresher, task, setCount, program, cache_lock, main>>

\* the second run: processor 2 on the same call without its ignored entries,
\* from the same cache state
PairSecond ==
  /\ task[1].pc = "done"
  /\ availability_cache = StartCache
  /\ Begin(2, Filtered(task[1].call))

PairNext ==
  \/ \E c \in EdgeCalls : PairFirst(c)
  \/ PairRestore
  \/ PairSecond
  \/ \E p \in Procs :
       \/ Snapshot(p)
       \/ Take(p)
       \/ \E ok \in BOOLEAN : Dispatch(p, ok)

SpecPair == StaticInit /\ [][PairNext]_vars

\* ------------------------------------------------------- derived quantities
RECURSIVE OrdersFrom(_, _, _)
\* the total quantity of the orders of a list issued from (service, city)
OrdersFrom(orders, s, c) ==
  IF orders = << >> THEN 0
  ELSE (IF Head(orders).service = s /\ Head(orders).source = c
        THEN Head(orders).quantity ELSE 0) + OrdersFrom(Tail(orders), s, c)

RECURSIVE IssuedBy(_, _, _)
IssuedBy(ps, s, c) ==
  IF ps = {} THEN 0
  ELSE LET p == CHOOSE x \in ps : TRUE
       IN OrdersFrom(task[p].orders, s, c) + IssuedBy(ps \ {p}, s, c)

\* the total quantity of the dispatch orders issued from (service, city)
Issued(s, c) == IssuedBy(Procs, s, c)

\* the orders of a list that the gateway took
Delivered(orders) == SelectSeq(orders, LAMBDA o : o.delivered)

RECURSIVE ReceivedBy(_, _, _)
ReceivedBy(ps, s, c) ==
  IF ps = {} THEN 0
  ELSE LET p == CHOOSE x \in ps : TRUE
       IN OrdersFrom(Delivered(task[p].orders), s, c) + ReceivedBy(ps \ {p}, s, c)

\* the total quantity of the dispatch orders the gateway took from (service, city)
Received(s, c) == ReceivedBy(Procs, s, c)

\* an order as the gateway sees it
Payload(o) == [service |-> o.service, source |-> o.source, target |-> o.target,
               quantity |-> o.quantity]

\* the quantity task p obtained for the i-th request of its call
Fulfilled(p, i) ==
  SumSeq([k \in 1..Len(task[p].orders) |->
            IF task[p].orders[k].req = i THEN task[p].orders[k].quantity ELSE 0])

\* the total quantity of the orders task p issued
Obtained(p) == SumSeq([i \in 1..Len(task[p].orders) |-> task[p].orders[i].quantity])

\* ------------------------------------------------------------------ claims
\* C1: under every interleaving of the call processors and the refresher of
\* aioHttp3.py, every count of availability_cache is >= 0.
C1_CountsNonNegative ==
  \A s \in Services : \A i \in 1..Len(availability_cache[s]) :
    availability_cache[s][i].count >= 0

\* a take that was clamped: the request wanted more than the pair held, and
\* the pair is left at 0
C1_Witness ==
  \E p \in Procs :
    /\ task[p].pc = "dispatch"
    /\ task[p].dispatch_count < task[p].remaining
    /\ LiveCount(availability_cache, ServiceOf(task[p]),
                 task[p].candidates[task[p].candIdx].city) = 0

\* C2: for every (service, city), the amounts taken since the last replace
\* never exceed the count C that replace set, and the live count is C minus
\* that sum.
C2_TakenWithinSet ==
  \A pr \in Pairs :
    /\ takenSince[pr] <= setCount[pr]
    /\ LiveCount(availability_cache, pr[1], pr[2]) = setCount[pr] - takenSince[pr]

\* both tasks hold units taken from the same pair since its last replace
C2_Witness ==
  \E pr \in Pairs :
    /\ takenSince[pr] = 2
    /\ \A p \in Procs :
         /\ task[p].pc = "dispatch"
         /\ task[p].dispatch_count = 1
         /\ <<ServiceOf(task[p]), task[p].candidates[task[p].candIdx].city>> = pr

\* C3: no unit is assigned twice: the total quantity of the dispatch orders
\* from a (service, city) never exceeds the true count the source had for it,
\* even counting only the orders the gateway took.
C3_NoUnitAssignedTwice ==
  \A s \in Services : \A c \in SourceCities : Received(s, c) <= TrueCount[s][c]

\* C4: in aioHttp.py, with concurrent tasks, no count goes negative and the
\* total dispatched from a pair never exceeds the count it held when the
\* tasks took their snapshots.
C4_V1NoOverdispatch ==
  \A s \in Services : \A c \in SourceCities :
    /\ LiveCount(availability_cache, s, c) >= 0
    /\ Issued(s, c) <= setCount[<<s, c>>]

\* C5: the take step of aioHttp3.py takes exactly min(live count, remaining)
\* from the pair in one step, takes 0 and leaves the cache alone when the
\* service or the city is not in the cache, and the order that follows
\* carries the amount taken.
C5_TakeStep ==
  [][\A p \in Procs :
       LET t == task[p]
           s == ServiceOf(t)
           city == t.candidates[t.candIdx].city
           present == s \in DOMAIN availability_cache /\ HasKey(availability_cache[s], city)
           live == IF present THEN DictGet(availability_cache[s], city, 0) ELSE 0
           amount == Min(live, t.remaining)
       IN /\ (t.pc = "take" /\ task'[p] # t) =>
               /\ ~present => availability_cache' = availability_cache
               /\ present => availability_cache' =
                    [availability_cache EXCEPT ![s] = DictPut(@, city, live - amount)]
               /\ amount > 0 => /\ task'[p].pc = "dispatch"
                                /\ task'[p].dispatch_count = amount
               /\ amount = 0 => /\ task'[p].pc # "dispatch"
                                /\ task'[p].orders = t.orders
          /\ (t.pc = "dispatch" /\ task'[p] # t) =>
               /\ availability_cache' = availability_cache
               /\ Len(task'[p].orders) = Len(t.orders) + 1
               /\ SubSeq(task'[p].orders, 1, Len(t.orders)) = t.orders
               /\ Payload(task'[p].orders[Len(t.orders) + 1]) =
                    [service |-> s, source |-> city, target |-> t.call.city,
                     quantity |-> t.dispatch_count]
    ]_vars

\* a take that found less than the request still needed and took all of it
C5_Witness ==
  \E p \in Procs :
    /\ task[p].pc = "dispatch"
    /\ task[p].dispatch_count > 0
    /\ task[p].dispatch_count < task[p].remaining
    /\ task[p].applied

\* C6: two concurrent requests of quantity q on a single candidate with
\* count C, q <= C < 2q, no refresh: one obtains q, the other C - q.
C6_TwoOnOneLocation ==
  LET C == setCount[<<"Medical", "A">>]
      q == task[1].call.requests[1].Quantity
  IN (/\ \A p \in Procs : task[p].pc = "done"
      /\ setCount[<<"Medical", "B">>] = 0
      /\ task[2].call.requests[1].Quantity = q
      /\ q <= C /\ C < 2 * q)
     => {Obtained(1), Obtained(2)} = {q, C - q}

\* the task that began second took first, and the first got the rest
C6_Witness ==
  /\ \A p \in Procs : task[p].pc = "done"
  /\ setCount[<<"Medical", "B">>] = 0
  /\ setCount[<<"Medical", "A">>] = 3
  /\ \A p \in Procs : task[p].call.requests[1].Quantity = 2
  /\ Obtained(2) = 2
  /\ Obtained(1) = 1

\* C7: in both shared-cache variants a dispatch order is sent only after its
\* decrement of the cache has been applied.
C7_OrderAfterDecrement ==
  \A p \in Procs : task[p].sent => task[p].applied

\* C8: when the gateway call fails (the order is not taken by the gateway),
\* the cache keeps the decrement, remaining is reduced by the amount taken
\* and the walk goes on as after a success.
C8_NoRollback ==
  [][\A p \in Procs :
       LET t == task[p]
           r == t.remaining - t.dispatch_count
       IN (/\ t.pc = "dispatch" /\ task'[p] # t
           /\ ~task'[p].orders[Len(t.orders) + 1].delivered) =>
            /\ availability_cache' = availability_cache
            /\ task'[p].remaining = r
            /\ IF t.candIdx < Len(t.candidates) /\ r > 0
               THEN task'[p].pc = "take" /\ task'[p].candIdx = t.candIdx + 1
               ELSE /\ task'[p].pc \in {"snapshot", "done"}
                    /\ task'[p].all_success = (t.all_success /\ r = 0)
    ]_vars

\* a call that ended fulfilled although the gateway took none of its orders:
\* the cache stays reduced
C8_Witness ==
  \E p \in Procs :
    /\ task[p].pc = "done"
    /\ task[p].result
    /\ Obtained(p) = 2
    /\ Delivered(task[p].orders) = << >>
    /\ takenSince[<<"Medical", "A">>] = 2
    /\ LiveCount(availability_cache, "Medical", "A") = 0

\* C9: whenever an order is about to be issued from a candidate, every
\* candidate strictly nearer in the request's list has been tried by the
\* request and was left at 0 by that try.
C9_NearerExhausted ==
  \A p \in Procs :
    task[p].pc = "dispatch" =>
      \A i \in 1..(task[p].candIdx - 1) :
        task[p].candidates[i].distance < task[p].candidates[task[p].candIdx].distance
          => /\ i <= Len(task[p].liveAfter)
             /\ task[p].liveAfter[i] = 0

\* an order from the second candidate of a list whose first one is nearer
C9_Witness ==
  \E p \in Procs :
    /\ task[p].pc = "dispatch"
    /\ task[p].candIdx = 2
    /\ task[p].candidates[1].distance < task[p].candidates[2].distance
    /\ Len(task[p].orders) = 1

\* C10: alone and without refresh, the allocator fulfils min(q, sum of the
\* candidates' counts), nearest candidate first, and leaves each candidate at
\* count - taken.
C10_SoloGreedy ==
  LET t == task[1]
      q == t.call.requests[1].Quantity
      m == availability_cache["Medical"]
      first == IF t.call.city = "T" \/ ~HasKey(m, "B") THEN "A" ELSE "B"
      second == IF first = "A" THEN "B" ELSE "A"
      c1 == setCount[<<"Medical", first>>]
      c2 == setCount[<<"Medical", second>>]
      k1 == Min(q, c1)
      k2 == Min(q - k1, c2)
      order(c, k) == [service |-> "Medical", source |-> c, target |-> t.call.city,
                      quantity |-> k]
  IN (t.pc = "done" /\ task[2].pc = "idle") =>
       /\ Obtained(1) = Min(q, c1 + c2)
       /\ t.remaining = q - Min(q, c1 + c2)
       /\ t.result = (q <= c1 + c2)
       /\ [i \in 1..Len(t.orders) |-> Payload(t.orders[i])] =
            (IF k1 > 0 THEN <<order(first, k1)>> ELSE << >>)
            \o (IF k2 > 0 THEN <<order(second, k2)>> ELSE << >>)
       /\ LiveCount(availability_cache, "Medical", first) = c1 - k1
       /\ LiveCount(availability_cache, "Medical", second) = c2 - k2

\* the nearer city is emptied and the rest comes from the farther one
C10_Witness ==
  /\ task[1].pc = "done" /\ task[2].pc = "idle"
  /\ task[1].call = Call("T", <<Request("Medical", 4)>>)
  /\ setCount[<<"Medical", "A">>] = 3 /\ setCount[<<"Medical", "B">>] = 2
  /\ LiveCount(availability_cache, "Medical", "A") = 0
  /\ LiveCount(availability_cache, "Medical", "B") = 1
  /\ task[1].result

\* C11: a call is reported successful only if every request of it with a
\* positive quantity ended with remainder 0, requests for an unregistered
\* service type included.
C11_SuccessMeansFulfilled ==
  \A p \in Procs :
    (task[p].pc = "done" /\ task[p].result) =>
      \A i \in 1..Len(task[p].call.requests) :
        task[p].call.requests[i].Quantity > 0 =>
          Fulfilled(p, i) = task[p].call.requests[i].Quantity

\* C12: a request for a service type that is no key of the cache changes no
\* count, emits no order and obtains nothing.
C12_UnregisteredService ==
  [][\A p \in Procs :
       LET t == task[p]
       IN /\ (/\ t.pc = "snapshot" /\ task'[p] # t
              /\ t.call.requests[t.reqIdx].Type \notin DOMAIN availability_cache) =>
               /\ availability_cache' = availability_cache
               /\ task'[p].orders = t.orders
               /\ task'[p].reqIdx = t.reqIdx + 1
          /\ \A k \in 1..Len(task'[p].orders) :
               /\ task'[p].orders[k].service \in DOMAIN availability_cache
               /\ task'[p].call.requests[task'[p].orders[k].req].Type
                    \in DOMAIN availability_cache
    ]_vars

\* a call whose first request names an unknown type ended with one order,
\* for its second request
C12_Witness ==
  \E p \in Procs :
    /\ task[p].pc = "done"
    /\ task[p].call = Call("T", <<Request("Other", 1), Request("Medical", 1)>>)
    /\ Fulfilled(p, 1) = 0
    /\ Fulfilled(p, 2) = 1

\* C13: a call whose target city is not in the location index is aborted as
\* a whole in aioHttp.py, aioHttp3.py and vector_simulation.py: no request is
\* processed, no count changes, no order is emitted, the call returns False
\* and nothing is raised.
C13_UnknownTargetAborts ==
  [][\A p \in Procs :
       /\ (/\ task[p].pc = "idle" /\ task'[p].pc # "idle"
           /\ task'[p].call.city \notin DOMAIN location_details) =>
            /\ task'[p].pc = "done"
            /\ ~task'[p].result
            /\ task'[p].reqIdx = 0
            /\ task'[p].orders = << >>
            /\ availability_cache' = availability_cache
            /\ source' = source
       /\ (task[p].pc = "done" /\ task[p].call.city \notin DOMAIN location_details) =>
            task'[p] = task[p]
    ]_vars

\* vector_simulation.py has aborted a call to the unknown city Z and served
\* another call
C13_Witness ==
  \E p, q \in Procs :
    /\ program = "vector_simulation"
    /\ task[p].pc = "done" /\ task[p].call.city = "Z" /\ ~task[p].result
    /\ task[q].pc = "done" /\ task[q].result /\ Len(task[q].orders) > 0

\* C14: a request entry whose quantity is <= 0 is ignored: no snapshot is
\* taken for it, no count changes, no order is emitted, nothing is raised.
C14_NonPositiveIgnored ==
  [][\A p \in Procs :
       LET t == task[p]
       IN (/\ t.pc = "snapshot" /\ task'[p] # t
           /\ t.call.requests[t.reqIdx].Quantity <= 0) =>
            /\ availability_cache' = availability_cache
            /\ task'[p].orders = t.orders
            /\ task'[p].reqIdx = t.reqIdx + 1
            /\ task'[p].pc \in {"snapshot", "done"}
            /\ task'[p].all_success = t.all_success
            /\ task'[p].pc = "snapshot" => task'[p].candidates = t.candidates
    ]_vars

\* a call went past a request of quantity -1 and was served for the next one
C14_Witness ==
  \E p \in Procs :
    /\ task[p].pc = "done"
    /\ task[p].call = Call("T", <<Request("Medical", -1), Request("Medical", 1)>>)
    /\ task[p].result
    /\ Fulfilled(p, 1) = 0
    /\ Fulfilled(p, 2) = 1

\* C15: right after a refresh cycle replaces a service type with the fetched
\* mapping M the cache holds exactly M for it, whatever was taken before the
\* swap, and a snapshot taken then is the snapshot of M.
C15_ReplaceSetsFetched ==
  [][(refresher.pc = "replace" /\ refresher'.pc # "replace") =>
       \A s \in Services :
         /\ CacheGet(availability_cache', s) = refresher.fetched[s]
         /\ \A c \in SourceCities :
              LiveCount(availability_cache', s, c) = DictGet(refresher.fetched[s], c, 0)
         /\ \A target \in {"T", "U"} :
              BuildCandidates(CacheGet(availability_cache', s), location_details[target])
                = BuildCandidates(refresher.fetched[s], location_details[target])
    ]_vars

\* a replace has put the 2 Medical units of A back into the cache while a
\* task that took one of them before the swap still awaits its gateway call
C15_Witness ==
  \E p \in Procs :
    /\ refresher.outcome = "replaced"
    /\ task[p].pc = "dispatch"
    /\ ServiceOf(task[p]) = "Medical"
    /\ task[p].candidates[task[p].candIdx].city = "A"
    /\ task[p].dispatch_count > 0
    /\ takenSince[<<"Medical", "A">>] = 0
    /\ LiveCount(availability_cache, "Medical", "A") = TrueCount["Medical"]["A"]

\* C16: a replace of a service type with the mapping the cache already holds
\* for it changes no observable count: every count read and every candidate
\* list built after it is what it would have been without it.
C16_IdenticalReplace ==
  [][(refresher.pc = "replace" /\ refresher'.pc # "replace") =>
       \A s \in Services :
         refresher.fetched[s] = availability_cache[s] =>
           /\ \A c \in SourceCities :
                LiveCount(availability_cache', s, c) = LiveCount(availability_cache, s, c)
           /\ \A target \in {"T", "U"} :
                BuildCandidates(CacheGet(availability_cache', s), location_details[target])
                  = BuildCandidates(CacheGet(availability_cache, s), location_details[target])
    ]_vars

\* a replace has just put back the Medical mapping the cache held, with units
C16_Witness ==
  /\ refresher.outcome = "replaced"
  /\ "Medical" \in refresher.same
  /\ \E c \in SourceCities : LiveCount(availability_cache, "Medical", c) > 0

\* C17: when a search of a refresh cycle fails (call_api returns None) the
\* refresher does not crash, that cycle changes no mapping of the cache, and
\* the refresher sleeps and then starts a new cycle.
C17_FailedCycle ==
  [][/\ refresher.pc \in {"fetch", "replace", "sleep"}
     /\ (refresher.pc = "fetch" /\ refresher' # refresher) =>
          availability_cache' = availability_cache
     /\ (refresher'.outcome = "failed" /\ refresher.pc = "fetch") =>
          /\ refresher'.pc = "sleep"
          /\ availability_cache' = availability_cache
     /\ (refresher.outcome = "failed" /\ refresher' # refresher) =>
          refresher' = IdleRefresher
    ]_vars

\* a cycle failed on an unavailable source after an earlier cycle had filled
\* the cache, and the refresher sleeps
C17_Witness ==
  /\ refresher.pc = "sleep"
  /\ refresher.outcome = "failed"
  /\ \E s \in Services : <<s, "None">> \in refresher.falsy
  /\ \E c \in SourceCities : LiveCount(availability_cache, "Medical", c) > 0

\* C18: when a search returns an absent or empty response for a service type
\* the cycle treats it as zero availability: after the cycle no city has a
\* positive count for that type, and nothing is raised.
C18_FalsyIsZero ==
  \A s \in Services :
    (\E st \in {"None", "json"} : <<s, st>> \in refresher.falsy) =>
      \A c \in SourceCities : LiveCount(availability_cache, s, c) = 0

\* C19: cancelling the refresher task stops its loop without a replace left
\* half-applied: when it is cancelled no service has been swapped without the
\* others, cache_lock is not held, and afterwards the refresher takes no step
\* and no mapping changes.
C19_CancelLeavesNoHalfReplace ==
  [][/\ refresher'.pc = "cancelled" =>
          /\ cache_lock' = {}
          /\ refresher'.swapped = {}
     /\ refresher.pc = "cancelled" =>
          /\ refresher' = refresher
          /\ availability_cache' = availability_cache
    ]_vars

\* the refresher was cancelled in the middle of its gather, one search back,
\* after the calls had been served from an earlier cycle
C19_Witness ==
  /\ refresher.pc = "cancelled"
  /\ refresher.got # {} /\ refresher.got # Services
  /\ \E p \in Procs : task[p].pc = "done" /\ Len(task[p].orders) > 0

\* C20: no task is in a network call, a search or a gateway call, while it
\* holds cache_lock: the lock is held only inside the snapshot block, the
\* take block and the swap of the refresher.
C20_NoNetworkUnderLock ==
  /\ \A p \in Procs :
       /\ task[p].pc = "dispatch" => Holder(p) \notin cache_lock
       /\ Holder(p) \in cache_lock => task[p].pc \in {"snapshot_locked", "take_locked"}
  /\ refresher.pc = "fetch" => RefresherHolder \notin cache_lock
  /\ RefresherHolder \in cache_lock => refresher.pc = "swap"

\* a task awaits its gateway call while the refresher is inside its block
C20_Witness ==
  /\ cache_lock = {RefresherHolder}
  /\ refresher.swapped # {}
  /\ \E p \in Procs : task[p].pc = "dispatch" /\ task[p].dispatch_count > 0

\* C21: in aioHttp.py the call processor never raises, under every
\* interleaving with the refresher, a replace that drops a city between the
\* snapshot and the decrement included.
C21_V1NeverRaises ==
  \A p \in Procs : task[p].pc # "raised"

\* C23: the candidate list built for a request holds exactly the cities of the
\* service's mapping at snapshot time that have a count > 0 and are in the
\* location index, in ascending distance to the target, cities at the same
\* distance in the order of the mapping.
C23_CandidateList ==
  [][\A p \in Procs :
       LET t == task[p]
           req == t.call.requests[t.reqIdx]
           m == availability_cache[req.Type]
           eligible == {k \in 1..Len(m) :
                          m[k].count > 0 /\ m[k].city \in DOMAIN location_details}
           cand == task'[p].candidates
           Pos(c) == CHOOSE k \in 1..Len(m) : m[k].city = c
           Dist(c) == euclidean_distance(location_details[c],
                                         location_details[t.call.city])
       IN (/\ t.pc = "snapshot" /\ task'[p] # t
           /\ req.Quantity > 0 /\ req.Type \in DOMAIN availability_cache) =>
            IF eligible = {}
            THEN task'[p].pc # "take" /\ task'[p].orders = t.orders
            ELSE /\ task'[p].pc = "take"
                 /\ Len(cand) = Cardinality(eligible)
                 /\ {cand[i].city : i \in 1..Len(cand)} = {m[k].city : k \in eligible}
                 /\ \A i \in 1..Len(cand) : cand[i].distance = Dist(cand[i].city)
                 /\ \A i, j \in 1..Len(cand) :
                      i < j => \/ Dist(cand[i].city) < Dist(cand[j].city)
                               \/ /\ Dist(cand[i].city) = Dist(cand[j].city)
                                  /\ Pos(cand[i].city) < Pos(cand[j].city)
    ]_vars

\* a request for target U, at the same distance from B and from A, has B
\* before A as the mapping has, and the Fire city X that is not in the index
\* is in no list
C23_Witness ==
  \E p \in Procs :
    /\ task[p].pc = "take"
    /\ task[p].call.city = "U"
    /\ Len(task[p].candidates) = 2
    /\ task[p].candidates[1].city = "B" /\ task[p].candidates[2].city = "A"
    /\ task[p].candidates[1].distance = task[p].candidates[2].distance
    /\ availability_cache["Medical"][1].city = "B"

\* C24: conservation per request: with q the requested quantity,
\* 0 <= remaining <= q at every step of the request, and q - remaining is the
\* sum of the quantities of the orders issued for the request and the sum of
\* the amounts the request subtracted from the cache (the amount of the step
\* whose gateway call is awaited is subtracted and not yet counted); the
\* request is never over-fulfilled and is walked on only while remaining > 0.
C24_Conservation ==
  \A p \in Procs :
    LET t == task[p]
        Q(i) == t.call.requests[i].Quantity
    IN /\ t.pc \in {"take", "dispatch"} =>
            /\ 0 <= t.remaining /\ t.remaining <= Q(t.reqIdx)
            /\ t.remaining > 0
            /\ Q(t.reqIdx) - t.remaining = Fulfilled(p, t.reqIdx)
            /\ t.pc = "take" => t.subtracted = Q(t.reqIdx) - t.remaining
            /\ t.pc = "dispatch" =>
                 /\ t.dispatch_count > 0 /\ t.dispatch_count <= t.remaining
                 /\ t.subtracted = Q(t.reqIdx) - t.remaining + t.dispatch_count
       /\ (/\ t.pc \in {"snapshot", "done"} /\ t.reqIdx > 1
           /\ Q(t.reqIdx - 1) > 0
           /\ t.call.requests[t.reqIdx - 1].Type \in DOMAIN availability_cache) =>
            /\ 0 <= t.remaining /\ t.remaining <= Q(t.reqIdx - 1)
            /\ Q(t.reqIdx - 1) - t.remaining = Fulfilled(p, t.reqIdx - 1)
            /\ t.subtracted = Q(t.reqIdx - 1) - t.remaining
       /\ \A i \in 1..Len(t.call.requests) : Fulfilled(p, i) <= Max(0, Q(i))

\* a request for 2 units has 1 unit ordered from its first city and awaits
\* the gateway call for the 1 unit it has taken from its second city
C24_Witness ==
  \E p \in Procs :
    /\ task[p].pc = "dispatch"
    /\ task[p].call.requests[1].Quantity = 2
    /\ task[p].candIdx = 2
    /\ task[p].remaining = 1
    /\ Fulfilled(p, 1) = 1
    /\ task[p].subtracted = 2

\* C25: a request tries each candidate of its list at most once and is never
\* taken up again, and every call processor that has started returns, under
\* fair scheduling when the network calls return: no interleaving with the
\* other processors and the refresher blocks it on cache_lock.
C25_OncePerCandidateAndReturns ==
  /\ [][\A p \in Procs :
          LET t == task[p] IN
          /\ task'[p].reqIdx >= t.reqIdx
          /\ (task'[p].pc = "take" /\ task'[p] # t /\ t.pc # "take") =>
               /\ task'[p].candIdx = IF t.pc = "snapshot_locked" THEN 1 ELSE t.candIdx + 1
               /\ task'[p].candIdx <= Len(task'[p].candidates)
               /\ \A i, j \in 1..Len(task'[p].candidates) :
                    i # j => task'[p].candidates[i].city # task'[p].candidates[j].city
          /\ (t.pc = "take" /\ task'[p] # t) =>
               /\ task'[p].pc = "take_locked"
               /\ task'[p].candIdx = t.candIdx
       ]_vars
  /\ \A p \in Procs : (task[p].pc \notin {"idle", "done"}) ~> (task[p].pc = "done")

\* a call for 2 units has returned after its request found nothing left at
\* A, the nearest city of its list, and took the unit of B
C25_Witness ==
  \E p \in Procs :
    /\ task[p].pc = "done"
    /\ task[p].call = Call("T", <<Request("Medical", 2)>>)
    /\ task[p].candIdx = 0
    /\ Len(task[p].orders) = 1
    /\ task[p].orders[1].source = "B"
    /\ ~task[p].result

\* C26: a refresh cycle is all-or-nothing across the service types: the
\* mappings are all replaced inside one locked block or none is, and no call
\* processor reads the cache while some types are of the newer cycle and
\* others are not.
C26_AllOrNothing ==
  [][/\ (refresher'.swapped # {} /\ refresher'.swapped # Services) =>
          /\ refresher'.pc = "swap"
          /\ cache_lock' = {RefresherHolder}
     /\ \A p \in Procs :
          (task[p].pc \in {"snapshot_locked", "take_locked"} /\ task'[p] # task[p]) =>
            refresher.swapped = {}
     /\ (refresher.pc = "swap" /\ refresher'.pc # "swap") =>
          \A s \in Services : availability_cache'[s] = refresher.fetched[s]
     /\ (refresher.pc = "fetch" /\ refresher'.outcome = "failed") =>
          availability_cache' = availability_cache
     /\ (refresher.pc # "swap" /\ refresher' # refresher) =>
          availability_cache' = availability_cache
    ]_vars

\* the refresher has stored the new Medical mapping and not yet the Fire one,
\* while a processor that awaits its gateway call will read the cache next
C26_Witness ==
  /\ refresher.pc = "swap"
  /\ refresher.swapped = {"Medical"}
  /\ availability_cache["Fire"] # refresher.fetched["Fire"]
  /\ availability_cache["Fire"] # << >>
  /\ \E p \in Procs : task[p].pc \in {"take", "dispatch"}

\* C27: the cache starts with an empty mapping for every service type and a
\* mapping goes from empty to non-empty only in the replace step of a refresh
\* cycle; a request (known type, positive quantity) whose snapshot is taken
\* while the mapping of its type is still empty gets no candidate, issues no
\* order, and its call returns False.
C27_EmptyUntilRefreshed ==
  /\ \A s \in Services : availability_cache[s] = EmptyDict
  /\ [][/\ \A s \in Services :
             (availability_cache[s] = EmptyDict /\ availability_cache'[s] # EmptyDict) =>
               /\ refresher.pc = "replace"
               /\ refresher'.outcome = "replaced"
               /\ availability_cache'[s] = refresher.fetched[s]
        /\ \A p \in Procs :
             (/\ task[p].pc = "snapshot"
              /\ task'[p] # task[p]
              /\ ~QuantityIgnored(task[p].call.requests[task[p].reqIdx].Quantity)
              /\ ServiceOf(task[p]) \in Services
              /\ availability_cache[ServiceOf(task[p])] = EmptyDict) =>
               /\ task'[p].candidates = << >>
               /\ task'[p].pc \in {"snapshot", "done"}
               /\ task'[p].orders = task[p].orders
               /\ task'[p].all_success = FALSE
        /\ \A p \in Procs :
             (task[p].pc # "idle" /\ ~task[p].all_success) =>
               /\ ~task'[p].all_success
               /\ task'[p].pc = "done" => task'[p].result = FALSE
       ]_vars

C27_Witness ==
  /\ \A s \in Services : availability_cache[s] = EmptyDict
  /\ refresher = IdleRefresher
  /\ \E p \in Procs :
       /\ task[p].pc = "done"
       /\ task[p].call = Call("T", <<Request("Fire", 1), Request("Medical", 1)>>)
       /\ task[p].result = FALSE
       /\ task[p].orders = << >>

\* C28: the candidate list of a request is fixed when its snapshot is taken:
\* it holds exactly the indexed cities whose count in the cache was positive
\* at that instant, no later step (a decrement, a refresh) changes its
\* members or their order while the request is processed, and every order
\* the request issues comes from a city of that list.
C28_CandidatesFixed ==
  [][\A p \in Procs :
       /\ (task[p].pc = "snapshot" /\ task'[p].pc = "take") =>
            /\ task'[p].reqIdx = task[p].reqIdx
            /\ \A i \in 1..Len(task'[p].candidates) :
                 task'[p].candidates[i].city \in DOMAIN location_details
            /\ \A c \in DOMAIN location_details :
                 (\E i \in 1..Len(task'[p].candidates) : task'[p].candidates[i].city = c)
                   <=> LiveCount(availability_cache, ServiceOf(task[p]), c) > 0
       /\ (task[p].pc \in {"take", "dispatch"} /\ task'[p].pc \in {"take", "dispatch"}) =>
            /\ task'[p].candidates = task[p].candidates
            /\ task'[p].reqIdx = task[p].reqIdx
       /\ task'[p].orders # task[p].orders =>
            /\ task[p].pc = "dispatch"
            /\ Len(task'[p].orders) = Len(task[p].orders) + 1
            /\ SubSeq(task'[p].orders, 1, Len(task[p].orders)) = task[p].orders
            /\ task'[p].orders[Len(task'[p].orders)].req = task[p].reqIdx
            /\ \E i \in 1..Len(task[p].candidates) :
                 task[p].candidates[i].city = task'[p].orders[Len(task'[p].orders)].source
    ]_vars

C28_Witness ==
  \E p \in Procs :
    /\ task[p].pc = "dispatch"
    /\ ServiceOf(task[p]) = "Medical"
    /\ task[p].candidates = <<[city |-> "A", distance |-> 1]>>
    /\ LiveCount(availability_cache, "Medical", "B") > 0

\* C22: in aioHttp3.py and in vector_simulation.py, when the Location Index
\* could not be loaded the run is over before any incident is polled or
\* handed to a processor and before any dispatch order is issued.
C22_LoadFailureAborts ==
  (program \in {"aioHttp3", "vector_simulation"} /\ main.index = "failed") =>
    /\ MainOver
    /\ main.polls = 0
    /\ \A p \in Procs : task[p].pc = "idle" /\ task[p].orders = << >>

\* C29: in fast_simulation.py a call whose target city is not in the Location
\* Index returns False and issues no order, and main does not count it:
\* total_calls_processed counts only calls with a known target.
C29_FastUnknownTargetUnresolved ==
  program = "fast_simulation" =>
    /\ \A p \in Procs :
         (task[p].pc = "done" /\ FastTargetUnknown(task[p].call.city)) =>
           /\ task[p].result = FALSE
           /\ task[p].orders = << >>
    /\ main.total_calls_processed <=
         Cardinality({p \in Procs : task[p].pc = "done"
                                     /\ ~FastTargetUnknown(task[p].call.city)})

\* C30: in fast_simulation.py, with calls processed concurrently by the pool,
\* the total quantity of the orders the gateway took from a (service, city)
\* never exceeds the count the source held for the pair.
C30_FastNoUnitAssignedTwice ==
  program = "fast_simulation" =>
    \A s \in Services : \A c \in SourceCities : Received(s, c) <= TrueCount[s][c]

\* the number of records equal to c the incident source has handed to main
HandedCount(c) == Cardinality({i \in 1..Len(main.handed) : main.handed[i] = c})

\* the number of processors that were started on a record equal to c
StartedCount(c) == Cardinality({p \in Procs : task[p].pc # "idle" /\ task[p].call = c})

\* the number of processors that ran to their end on a record equal to c
ProcessedCount(c) ==
  Cardinality({p \in Procs : task[p].pc \in {"done", "raised"} /\ task[p].call = c})

\* C31: in aioHttp.py, aioHttp3.py and fast_simulation.py every record the
\* incident source handed to main, in a batch or from the next-call request,
\* is run through the call processor exactly once: never more processors
\* than records, and when main is back at the head of its loop, or out of
\* it, every record handed out so far has been processed.
C31_EveryRecordProcessedOnce ==
  program \in {"aioHttp", "aioHttp3", "fast_simulation"} =>
    \A c \in MainCalls :
      /\ StartedCount(c) <= HandedCount(c)
      /\ main.pc # "gather" => ProcessedCount(c) = HandedCount(c)

\* the processors of the batch whose call returned True
ReturnedTrue == {p \in BatchProcs : task[p].pc = "done" /\ task[p].result}

\* C32: in main of aioHttp3.py total_calls_processed grows only when main
\* goes through the results of a batch, by at most the number of calls of the
\* batch that returned True; a batch in which every call returned False or
\* raised leaves the count as it is and main in its loop; and the count never
\* exceeds targetDispatches.
C32_CountsOnlyTrue ==
  [][program = "aioHttp3" =>
       /\ main'.total_calls_processed <= main'.targetDispatches
       /\ main'.total_calls_processed >= main.total_calls_processed
       /\ main'.total_calls_processed # main.total_calls_processed =>
            /\ main.pc = "gather"
            /\ main'.total_calls_processed - main.total_calls_processed
                 <= Cardinality(ReturnedTrue)
       /\ (main.pc = "gather" /\ main'.pc # "gather" /\ ReturnedTrue = {}) =>
            /\ main'.total_calls_processed = main.total_calls_processed
            /\ main'.pc = "poll"
    ]_vars

C32_Witness ==
  /\ program = "aioHttp3"
  /\ main.pc = "stop"
  /\ main.targetDispatches = 1
  /\ main.total_calls_processed = 1
  /\ \A p \in Procs : task[p].pc = "done" /\ task[p].result

\* C33: main of aioHttp3.py, once in its loop, reaches the stop request and
\* returns, whether the incident source runs empty or targetDispatches calls
\* have been counted (with the count reached main is on its way out of the
\* loop); after the stop request the refresher takes no step and no
\* processor takes a step.
C33_ReachesStop ==
  /\ (main.index = "loaded") ~> (main.pc = "returned" /\ main.stop_requested)
  /\ [](main.total_calls_processed >= main.targetDispatches =>
          main.pc \in {"stop", "returned"})
  /\ [][main.stop_requested => (task' = task /\ refresher' = refresher /\ main' = main)]_vars

C33_Witness ==
  /\ program = "aioHttp3"
  /\ main.pc = "returned"
  /\ main.stop_requested
  /\ main.total_calls_processed < main.targetDispatches
  /\ main.polls = 3
  /\ refresher.pc = "replace"
  /\ \E p \in Procs : task[p].orders # << >>

\* C34: in aioHttp3.py a call and the same call without its entries of
\* Quantity <= 0, processed from the same cache state, return the same value.
C34_IgnoredEntriesDoNotMatter ==
  (task[1].pc = "done" /\ task[2].pc = "done" /\ task[2].call = Filtered(task[1].call)) =>
    task[2].result = task[1].result

====
